---------------------------- MODULE Spec2Model ----------------------------
(***************************************************************************)
(* A model of router::RuntimePolicy (engine/source/router/src/             *)
(* runtimePolicy.cpp): build, processEvent, the output subscriber, the     *)
(* trace subscriber and getData.                                           *)
(*                                                                         *)
(* Three threads are modelled: the caller of build/processEvent/getData,   *)
(* the controller thread that runs the trace subscriber and the controller *)
(* thread that runs the output subscriber.  The two subscribers take the   *)
(* mutexes the code takes; getData takes none, so its statements           *)
(* interleave with theirs.                                                 *)
(*                                                                         *)
(* A string is a sequence of characters.  The word "condition" is one      *)
(* character of the alphabet (the lines considered hold its letters only   *)
(* as the whole word); every other character is a one-character string.    *)
(***************************************************************************)
EXTENDS Integers, Sequences, FiniteSets, TLC

VARIABLES
    m_spController,  \* NULL, or the identity of the rxbk::Controller
    m_environment,   \* NULL, or the identity of the built environment
    outSub,          \* NULL, or the controller whose output the subscriber is attached to
    traceSub,        \* NULL, or the controller whose tracers the trace sink is attached to
    m_output,        \* the output latch
    m_history,       \* std::vector of (asset, condition) pairs
    m_traceBuffer,   \* std::map: asset -> vector of buffered raw lines
    m_outputMutex,   \* owner of m_outputMutex, or FREE
    m_tracerMutex,   \* owner of m_tracerMutex, or FREE
    ctl,             \* the controller's side: events handed in, outputs pending
    caller,          \* the caller thread: position inside getData and its locals
    sink,            \* the trace-subscriber thread: position and the line it holds
    outp,            \* the output-subscriber thread: position and the event it holds
    ret,             \* what the caller's last call returned (none while getData runs)
    obs              \* observation of the run: history variables; no guard reads
                     \* them but for obs.calls, which bounds the caller's calls

vars == <<m_spController, m_environment, outSub, traceSub, m_output, m_history,
          m_traceBuffer, m_outputMutex, m_tracerMutex, ctl, caller, sink, outp,
          ret, obs>>

-----------------------------------------------------------------------------
(* Bounds of the model *)

MaxCalls == 4     \* calls the caller makes (build, processEvent, getData)
MaxTraces == 2    \* trace lines the controller delivers

NULL == 0
FREE == "free"

-----------------------------------------------------------------------------
(* Characters and strings *)

NL == "\n"
COND == "condition"

\* The byte a character starts with, for std::string's operator<.
Byte(c) ==
    CASE c = NL   -> 10
      [] c = " "  -> 32
      [] c = ":"  -> 58
      [] c = "["  -> 91
      [] c = "]"  -> 93
      [] c = "a"  -> 97
      [] c = "b"  -> 98
      [] c = COND -> 99
      [] c = "h"  -> 104
      [] c = "p"  -> 112
      [] c = "q"  -> 113
      [] c = "x"  -> 120

\* The trace lines the pipeline's operators emit in this model.
LineCondA     == <<"[", "a", "]", " ", "[", COND, "]", ":", "p">>
LineCondB     == <<"[", "b", "]", " ", "[", COND, "]", ":", "q">>
LineHitA      == <<"[", "a", "]", " ", "h">>
LineBroken    == <<"[", "b">>
LineEmbedded  == <<"x", " ", "[", "a", "]", " ", "[", COND, "]", ":", "q">>
LineEmptyCond == <<"[", "a", "]", " ", "[", COND, "]", ":">>
LineEmptyVerb == <<"[", "a", "]", " ">>

Lines == {LineCondA, LineCondB, LineHitA, LineBroken, LineEmbedded,
          LineEmptyCond, LineEmptyVerb}

DebugModes == {"OUTPUT_ONLY", "OUTPUT_AND_TRACES", "OUTPUT_AND_TRACES_WITH_DETAILS"}

-----------------------------------------------------------------------------
(* std::regex, ECMAScript grammar, as std::regex_search applies it *)

\* '.' matches any character but a line terminator.
DotChar(c) == c # NL

At(s, i) == IF i \in 1..Len(s) THEN s[i] ELSE "<end>"

\* [^\]]+ followed by \] from position i: the run ends at the first "]".
CloseOf(s, i) ==
    LET js == {j \in i..Len(s) : s[j] = "]"}
    IN  IF js = {} THEN 0 ELSE CHOOSE j \in js : \A k \in js : j <= k

\* (.+) from position i, greedy: the longest run of non-terminators.
DotRun(s, i) ==
    LET stops == {j \in i..Len(s) : ~DotChar(s[j])}
        last  == IF stops = {} THEN Len(s)
                 ELSE (CHOOSE j \in stops : \A k \in stops : j <= k) - 1
    IN  SubSeq(s, i, last)

\* \[([^\]]+)\] \[condition\]:(.+) matched with its first character at i.
CondMatchAt(s, i) ==
    LET j == CloseOf(s, i + 1)
    IN  /\ At(s, i) = "["
        /\ j >= i + 2
        /\ At(s, j + 1) = " "
        /\ At(s, j + 2) = "["
        /\ At(s, j + 3) = COND
        /\ At(s, j + 4) = "]"
        /\ At(s, j + 5) = ":"
        /\ j + 6 <= Len(s)
        /\ DotChar(s[j + 6])

\* std::regex_search(trace, match, opRegex): the leftmost match, or 0.
CondSearch(s) ==
    LET is == {i \in 1..Len(s) : CondMatchAt(s, i)}
    IN  IF is = {} THEN 0 ELSE CHOOSE i \in is : \A k \in is : i <= k

\* {match[1].str(), match[2].str()} of the condition pattern.
CondRecord(s) ==
    LET i == CondSearch(s)
        j == CloseOf(s, i + 1)
    IN  <<SubSeq(s, i + 1, j - 1), DotRun(s, j + 6)>>

\* ^\[([^\]]+)\] (.+) : '^' lets the match start at the first character only.
VerboseSearch(s) ==
    LET j == CloseOf(s, 2)
    IN  /\ At(s, 1) = "["
        /\ j >= 3
        /\ At(s, j + 1) = " "
        /\ j + 2 <= Len(s)
        /\ DotChar(s[j + 2])

\* matchVerbose[1].str()
VerboseKey(s) == SubSeq(s, 2, CloseOf(s, 2) - 1)


-----------------------------------------------------------------------------
(* json::Json and strings *)

\* std::set<std::string> iterates in operator< order: the least string first.
StrLess(s, t) ==
    \E k \in 1..(Len(s) + 1) :
        /\ k <= Len(t) + 1
        /\ \A i \in 1..(k - 1) : s[i] = t[i]
        /\ \/ k = Len(s) + 1 /\ k <= Len(t)
           \/ k <= Len(s) /\ k <= Len(t) /\ Byte(s[k]) < Byte(t[k])

RECURSIVE ConcatSorted(_)
\* combinedTrace << uniqueTrace for every element of the set, in its order.
ConcatSorted(S) ==
    IF S = {} THEN <<>>
    ELSE LET least == CHOOSE s \in S : \A t \in S \ {s} : StrLess(s, t)
         IN  least \o ConcatSorted(S \ {least})

\* The elements of a vector, as std::set::insert collects them.
UniqueTraces(vec) == {vec[i] : i \in 1..Len(vec)}

\* std::string("/") + asset
Path(asset) == <<"/">> \o asset

\* A getData whose trace starts out holding a member.
Mut_EmptyJson == <<<<<<"/">>, <<>>>>>>

\* json::Json {"{}"} : an object with no member.
EmptyJson == <<>>

\* A setString that leaves a member the object holds already as it is.
Mut_SetString(json, value, path) ==
    IF \E i \in 1..Len(json) : json[i][1] = path
    THEN json
    ELSE Append(json, <<path, value>>)

\* Json::setString(value, path): the member at path gets the value; a new
\* member goes last.  (No asset of Lines holds '/' or '~', so a path names
\* one member of the root object.)
SetString(json, value, path) ==
    IF \E i \in 1..Len(json) : json[i][1] = path
    THEN [i \in 1..Len(json) |->
            IF json[i][1] = path THEN <<path, value>> ELSE json[i]]
    ELSE Append(json, <<path, value>>)

\* Json::prettyStr(): the text of the object.
PrettyStr(json) == [open |-> "{", members |-> json, close |-> "}"]

\* event->payload()->prettyStr() of the n-th event handed in.
EventText(n) == ToString(n)

\* A subscriber that latches the text of the first event whatever it is given.
Mut_OutputText(n) == <<EventText(1), NL>>

\* output << prettyStr << std::endl; output.str()
OutputText(n) == <<EventText(n), NL>>

-----------------------------------------------------------------------------
(* The state after RuntimePolicy's construction *)

CallerIdle == [pc |-> "idle", mode |-> "OUTPUT_ONLY", it |-> 0, end |-> 0,
               trace |-> EmptyJson]

NoReturn == [op |-> "none", val |-> "none", mode |-> "none",
             output |-> <<>>, trace |-> PrettyStr(EmptyJson)]

Init ==
    /\ m_spController = NULL
    /\ m_environment = NULL
    /\ outSub = NULL
    /\ traceSub = NULL
    /\ m_output = <<>>
    /\ m_history = <<>>
    /\ m_traceBuffer = <<>>
    /\ m_outputMutex = FREE
    /\ m_tracerMutex = FREE
    /\ ctl = [made |-> 0, envs |-> 0, handed |-> 0, outputs |-> 0, traces |-> 0]
    /\ caller = CallerIdle
    /\ sink = [pc |-> "idle", line |-> <<>>]
    /\ outp = [pc |-> "idle", ev |-> 0]
    /\ ret = NoReturn
    /\ obs = [calls |-> 0, buildOk |-> FALSE, condLog |-> <<>>,
              verbLog |-> <<>>, emptied |-> {}, onlyOther |-> TRUE,
              iterated |-> <<>>, lost |-> FALSE, twice |-> FALSE,
              snap |-> <<>>, raced |-> FALSE, since |-> FALSE, prev |-> <<>>]

-----------------------------------------------------------------------------
(* RuntimePolicy::build *)

Throwers == {"none", "buildPolicy", "buildRxPipeline", "subscribeToOutput",
             "listenAllTrace"}

\* The statements of the try block that run to completion when the call
\* named by throwAt raises std::exception.
Completes(throwAt) ==
    CASE throwAt = "buildPolicy"       -> {}
      [] throwAt = "buildRxPipeline"   -> {"buildPolicy"}
      [] throwAt = "subscribeToOutput" -> {"buildPolicy", "buildRxPipeline"}
      [] throwAt = "listenAllTrace"    -> {"buildPolicy", "buildRxPipeline",
                                           "subscribeToOutput"}
      [] throwAt = "none"              -> {"buildPolicy", "buildRxPipeline",
                                           "subscribeToOutput", "listenAllTrace"}

\* build with the test of m_spController left out: it builds again.
Mut_BuildRejects == FALSE

\* if (m_spController) return base::Error {... is already built}
BuildRejects == m_spController # NULL

\* The state of the instance, as build and processEvent test it.
LifecycleState == IF m_spController = NULL THEN "UNBUILT" ELSE "BUILT"

BuildReturn(throwAt) ==
    IF BuildRejects THEN "AlreadyBuilt"
    ELSE IF throwAt = "none" THEN "Ok" ELSE "BuildFailure"

build(throwAt) ==
    LET done == IF BuildRejects THEN {} ELSE Completes(throwAt)
        newCtl == ctl.made + 1
    IN  /\ caller.pc = "idle"
        /\ obs.calls < MaxCalls
        /\ m_environment' =
              IF "buildPolicy" \in done THEN ctl.envs + 1 ELSE m_environment
        /\ m_spController' =
              IF "buildRxPipeline" \in done THEN newCtl ELSE m_spController
        /\ outSub' = IF "subscribeToOutput" \in done THEN newCtl ELSE outSub
        /\ traceSub' = IF "listenAllTrace" \in done THEN newCtl ELSE traceSub
        /\ ctl' = [ctl EXCEPT
                     !.envs = IF "buildPolicy" \in done THEN @ + 1 ELSE @,
                     !.made = IF "buildRxPipeline" \in done THEN @ + 1 ELSE @]
        /\ ret' = [NoReturn EXCEPT !.op = "build", !.val = BuildReturn(throwAt)]
        /\ obs' = [obs EXCEPT !.calls = @ + 1,
                              !.buildOk = @ \/ BuildReturn(throwAt) = "Ok"]
        /\ UNCHANGED <<m_output, m_history, m_traceBuffer, m_outputMutex,
                       m_tracerMutex, caller, sink, outp>>

-----------------------------------------------------------------------------
(* RuntimePolicy::processEvent *)

\* if (!m_spController) return base::Error {... is not built}
ProcessEventRejects == m_spController = NULL

processEvent ==
    /\ caller.pc = "idle"
    /\ obs.calls < MaxCalls
    /\ ctl' = IF ProcessEventRejects THEN ctl
              ELSE [ctl EXCEPT !.handed = @ + 1]
    /\ ret' = [NoReturn EXCEPT
                 !.op = "processEvent",
                 !.val = IF ProcessEventRejects THEN "NotBuilt" ELSE "Ok"]
    /\ obs' = [obs EXCEPT !.calls = @ + 1]
    /\ UNCHANGED <<m_spController, m_environment, outSub, traceSub, m_output,
                   m_history, m_traceBuffer, m_outputMutex, m_tracerMutex,
                   caller, sink, outp>>

-----------------------------------------------------------------------------
(* The output subscriber of subscribeToOutput *)

\* The controller delivers the terminal event of an event handed to it, one
\* for each event and in the order they were handed in: the subscriber locks
\* m_outputMutex, builds the text and starts m_output = output.str(); until
\* the assignment is complete m_output holds the characters written so far.
OutputAssign ==
    /\ outSub # NULL
    /\ outp.pc = "idle"
    /\ ctl.outputs < ctl.handed
    /\ m_outputMutex = FREE
    /\ m_outputMutex' = "output"
    /\ outp' = [pc |-> "assign", ev |-> ctl.outputs + 1]
    /\ ctl' = [ctl EXCEPT !.outputs = @ + 1]
    /\ m_output' = <<EventText(ctl.outputs + 1)>>
    /\ obs' = [obs EXCEPT !.since = TRUE]
    /\ UNCHANGED <<m_spController, m_environment, outSub, traceSub, m_history,
                   m_traceBuffer, m_tracerMutex, caller, sink, ret>>

\* The assignment is complete and the lock_guard releases the mutex.
OutputFinish ==
    /\ outp.pc = "assign"
    /\ m_output' = OutputText(outp.ev)
    /\ m_outputMutex' = FREE
    /\ outp' = [pc |-> "idle", ev |-> 0]
    /\ UNCHANGED <<m_spController, m_environment, outSub, traceSub, m_history,
                   m_traceBuffer, m_tracerMutex, ctl, caller, sink, ret, obs>>

-----------------------------------------------------------------------------
(* The two shapes of a trace line, as the data model words them: what the  *)
(* observation of a run is recorded against.                               *)

\* The line starts "[<asset>] " with a non-empty <asset> that holds no "]".
HasAssetTag(line) ==
    \E n \in 1..Len(line) :
        /\ Len(line) >= n + 3
        /\ line[1] = "["
        /\ \A k \in 2..(n + 1) : line[k] # "]"
        /\ line[n + 2] = "]"
        /\ line[n + 3] = " "

\* <asset> of a line that starts "[<asset>] ".
ShapeAsset(line) ==
    LET n == CHOOSE n \in 1..Len(line) :
                 /\ Len(line) >= n + 2
                 /\ \A k \in 2..(n + 1) : line[k] # "]"
                 /\ line[n + 2] = "]"
    IN  SubSeq(line, 2, n + 1)

\* What follows "[<asset>] ".
ShapeRest(line) == SubSeq(line, Len(ShapeAsset(line)) + 4, Len(line))

ConditionTag == <<"[", COND, "]", ":">>

\* Verbose: [<asset>] <payload>, the payload not empty.
HasVerboseShape(line) == HasAssetTag(line) /\ ShapeRest(line) # <<>>

\* Condition: [<asset>] [condition]:<payload>, the payload not empty.
HasConditionShape(line) ==
    /\ HasAssetTag(line)
    /\ Len(ShapeRest(line)) > Len(ConditionTag)
    /\ SubSeq(ShapeRest(line), 1, Len(ConditionTag)) = ConditionTag

\* The record (asset, payload) of a line of the condition shape.
ShapeRecord(line) ==
    <<ShapeAsset(line),
      SubSeq(ShapeRest(line), Len(ConditionTag) + 1, Len(ShapeRest(line)))>>

\* log with the line added to what it holds for the asset.
Logged(log, asset, line) ==
    [k \in DOMAIN log \cup {asset} |->
        IF k = asset
        THEN Append(IF asset \in DOMAIN log THEN log[asset] ELSE <<>>, line)
        ELSE log[k]]

-----------------------------------------------------------------------------
(* The trace subscriber of listenAllTrace *)

\* m_history.push_back({match[1].str(), match[2].str()}) when opRegex matches.
PushHistory(history, line) ==
    IF CondSearch(line) # 0 THEN Append(history, CondRecord(line)) ELSE history

\* A sink that keeps a line out of its bucket when the bucket holds it already.
Mut_PushVerbose(buffer, line) ==
    IF VerboseSearch(line)
    THEN LET key == VerboseKey(line)
             old == IF key \in DOMAIN buffer THEN buffer[key] ELSE <<>>
         IN  [k \in DOMAIN buffer \cup {key} |->
                IF k = key
                THEN IF \E i \in 1..Len(old) : old[i] = line
                     THEN old ELSE Append(old, line)
                ELSE buffer[k]]
    ELSE buffer

\* m_traceBuffer[key].push_back(traceStream) when opRegexVerbose matches;
\* the stream holds the whole line.
PushVerbose(buffer, line) ==
    IF VerboseSearch(line)
    THEN LET key == VerboseKey(line)
             old == IF key \in DOMAIN buffer THEN buffer[key] ELSE <<>>
         IN  [k \in DOMAIN buffer \cup {key} |->
                IF k = key THEN Append(old, line) ELSE buffer[k]]
    ELSE buffer

\* The controller delivers a line, which its operators emit once an event
\* was handed in: the sink locks m_tracerMutex and runs the condition pattern
\* over it.
TraceCondition(line) ==
    /\ traceSub # NULL
    /\ sink.pc = "idle"
    /\ ctl.handed > 0
    /\ ctl.traces < MaxTraces
    /\ m_tracerMutex = FREE
    /\ m_tracerMutex' = "trace"
    /\ sink' = [pc |-> "verbose", line |-> line]
    /\ ctl' = [ctl EXCEPT !.traces = @ + 1]
    /\ m_history' = PushHistory(m_history, line)
    /\ obs' = [obs EXCEPT
                 !.condLog = IF HasConditionShape(line)
                             THEN Append(@, ShapeRecord(line)) ELSE @,
                 !.onlyOther = @ /\ ~HasAssetTag(line),
                 !.iterated = IF CondSearch(line) # 0 THEN Append(@, 0) ELSE @,
                 !.raced = @ \/ caller.pc # "idle",
                 !.since = TRUE]
    /\ UNCHANGED <<m_spController, m_environment, outSub, traceSub, m_output,
                   m_traceBuffer, m_outputMutex, caller, outp, ret>>

\* The sink runs the verbose pattern over the line and leaves; the lock_guard
\* releases m_tracerMutex.
TraceVerbose ==
    /\ sink.pc = "verbose"
    /\ m_traceBuffer' = PushVerbose(m_traceBuffer, sink.line)
    /\ m_tracerMutex' = FREE
    /\ sink' = [pc |-> "idle", line |-> <<>>]
    /\ obs' = [obs EXCEPT
                 !.verbLog = IF HasVerboseShape(sink.line)
                                /\ ShapeAsset(sink.line) \notin obs.emptied
                             THEN Logged(@, ShapeAsset(sink.line), sink.line)
                             ELSE @,
                 !.raced = @ \/ caller.pc # "idle"]
    /\ UNCHANGED <<m_spController, m_environment, outSub, traceSub, m_output,
                   m_history, m_outputMutex, ctl, caller, outp, ret>>

-----------------------------------------------------------------------------
(* RuntimePolicy::getData.  It locks neither mutex, so each of its accesses *)
(* to m_history, m_traceBuffer and m_output is a step of its own.          *)

\* The call: trace is "{}"; the range-for takes m_history.begin() and
\* m_history.end() once, before the first iteration.
GetDataCall(mode) ==
    /\ caller.pc = "idle"
    /\ obs.calls < MaxCalls
    /\ caller' = [pc |-> "loop", mode |-> mode, it |-> 1,
                  end |-> Len(m_history), trace |-> EmptyJson]
    /\ ret' = NoReturn
    /\ obs' = [obs EXCEPT
                 !.calls = @ + 1, !.snap = m_traceBuffer,
                 !.raced = sink.pc # "idle",
                 !.prev = IF /\ ret.op = "getData" /\ ret.mode = mode
                             /\ mode # "OUTPUT_ONLY" /\ ~obs.since
                          THEN <<ret.output, ctl.outputs>> ELSE <<>>]
    /\ UNCHANGED <<m_spController, m_environment, outSub, traceSub, m_output,
                   m_history, m_traceBuffer, m_outputMutex, m_tracerMutex, ctl,
                   sink, outp>>

\* What one iteration writes into trace for the pair (asset, condition).
IterationTrace(trace, mode, asset, condition, buffer) ==
    IF mode = "OUTPUT_AND_TRACES_WITH_DETAILS"
    THEN IF asset \in DOMAIN buffer
         THEN SetString(trace, ConcatSorted(UniqueTraces(buffer[asset])),
                        Path(asset))
         ELSE trace
    ELSE IF mode = "OUTPUT_AND_TRACES"
         THEN SetString(trace, condition, Path(asset))
         ELSE trace

\* A getData that clears the bucket of the asset in every mode.
Mut_IterationClears(mode, asset, buffer) == asset \in DOMAIN buffer

\* Whether the iteration goes on to m_traceBuffer[asset].clear().
IterationClears(mode, asset, buffer) ==
    mode = "OUTPUT_AND_TRACES_WITH_DETAILS" /\ asset \in DOMAIN buffer

\* One iteration of the range-for, up to the write into trace.  A push_back
\* that reallocates m_history meanwhile leaves the loop's iterators pointing
\* into the old storage; its elements are the ones the vector still holds, so
\* the pair read is m_history[it] either way.
GetDataIterate ==
    /\ caller.pc = "loop"
    /\ caller.it <= caller.end
    /\ LET asset == m_history[caller.it][1]
           condition == m_history[caller.it][2]
           clears == IterationClears(caller.mode, asset, m_traceBuffer)
       IN  /\ caller' = [caller EXCEPT
                  !.trace = IterationTrace(@, caller.mode, asset, condition,
                                           m_traceBuffer),
                  !.pc = IF clears THEN "clearBucket" ELSE "loop",
                  !.it = IF clears THEN @ ELSE @ + 1]
           /\ obs' = [obs EXCEPT
                        !.twice = @ \/ obs.iterated[caller.it] > 0,
                        !.iterated[caller.it] = 1]
    /\ UNCHANGED <<m_spController, m_environment, outSub, traceSub, m_output,
                   m_history, m_traceBuffer, m_outputMutex, m_tracerMutex, ctl,
                   sink, outp, ret>>

\* m_traceBuffer[asset].clear() ends the iteration.
GetDataClearBucket ==
    /\ caller.pc = "clearBucket"
    /\ LET asset == m_history[caller.it][1]
       IN  /\ m_traceBuffer' = [m_traceBuffer EXCEPT ![asset] = <<>>]
           /\ obs' = [obs EXCEPT !.emptied = @ \cup {asset}]
    /\ caller' = [caller EXCEPT !.pc = "loop", !.it = @ + 1]
    /\ UNCHANGED <<m_spController, m_environment, outSub, traceSub, m_output,
                   m_history, m_outputMutex, m_tracerMutex, ctl, sink, outp,
                   ret>>

\* The iterator reached the end taken at the call:
\* if (!m_history.empty()) m_history.clear()
GetDataClearHistory ==
    /\ caller.pc = "loop"
    /\ caller.it > caller.end
    /\ m_history' = <<>>
    /\ caller' = [caller EXCEPT !.pc = "return"]
    /\ obs' = [obs EXCEPT
                 !.lost = @ \/ \E k \in 1..Len(obs.iterated) :
                                   obs.iterated[k] = 0,
                 !.iterated = <<>>,
                 !.condLog = <<>>]
    /\ UNCHANGED <<m_spController, m_environment, outSub, traceSub, m_output,
                   m_traceBuffer, m_outputMutex, m_tracerMutex, ctl, sink, outp,
                   ret>>

\* return std::make_tuple(m_output, trace.prettyStr())
GetDataReturn ==
    /\ caller.pc = "return"
    /\ ret' = [op |-> "getData", val |-> "Data", mode |-> caller.mode,
               output |-> m_output, trace |-> PrettyStr(caller.trace)]
    /\ caller' = CallerIdle
    /\ obs' = [obs EXCEPT !.snap = <<>>, !.raced = FALSE, !.since = FALSE,
                          !.prev = <<>>]
    /\ UNCHANGED <<m_spController, m_environment, outSub, traceSub, m_output,
                   m_history, m_traceBuffer, m_outputMutex, m_tracerMutex, ctl,
                   sink, outp>>

-----------------------------------------------------------------------------
(* The specification *)

Next ==
    \/ \E throwAt \in Throwers : build(throwAt)
    \/ processEvent
    \/ OutputAssign
    \/ OutputFinish
    \/ \E line \in Lines : TraceCondition(line)
    \/ TraceVerbose
    \/ \E mode \in DebugModes : GetDataCall(mode)
    \/ GetDataIterate
    \/ GetDataClearBucket
    \/ GetDataClearHistory
    \/ GetDataReturn

Spec == Init /\ [][Next]_vars

\* The threads are scheduled fairly: a caller inside getData runs its next
\* statement, and a subscriber that holds its mutex runs to its end.  When a
\* call is made and when the controller delivers is left open.
FairSpec ==
    /\ Spec
    /\ WF_vars(GetDataIterate)
    /\ WF_vars(GetDataClearBucket)
    /\ WF_vars(GetDataClearHistory)
    /\ WF_vars(GetDataReturn)
    /\ WF_vars(OutputFinish)
    /\ WF_vars(TraceVerbose)

-----------------------------------------------------------------------------
(* Reading the state *)

\* The step is the return of a call to op.
Returns(op) == obs'.calls = obs.calls + 1 /\ ret'.op = op

\* The vector m_traceBuffer holds for the asset; empty when it holds none.
Bucket(buffer, asset) ==
    IF asset \in DOMAIN buffer THEN buffer[asset] ELSE <<>>

\* The string the JSON object holds at the path, if it holds one.
HasMember(json, path) == \E i \in 1..Len(json) : json[i][1] = path
Member(json, path) ==
    LET i == CHOOSE i \in 1..Len(json) : json[i][1] = path IN json[i][2]

DETAILS == "OUTPUT_AND_TRACES_WITH_DETAILS"

\* The text "{}" and the empty string, as a caller reads them.
EmptyObjectText == [open |-> "{", members |-> <<>>, close |-> "}"]
EmptyString == <<>>

\* The step is a step of getData / the return of getData.
GetDataStep == caller' # caller
GetDataReturns == caller.pc = "return" /\ caller'.pc = "idle"

-----------------------------------------------------------------------------
(* The claims *)

\* C1: every condition record appended to m_history is iterated over by
\* exactly one getData call: none is cleared by a call that did not iterate
\* over it, none is iterated over by two calls.
C1_LossFreeDrain == ~obs.lost /\ ~obs.twice

\* C2: processEvent on an instance on which no build has returned Ok returns
\* NotBuilt, hands no event to a controller and leaves the controller
\* pointer, the output latch, m_history and m_traceBuffer as they are.
C2_IngestBeforeBuildRejected ==
    [][(~obs.buildOk /\ Returns("processEvent"))
          => /\ ret'.val = "NotBuilt"
             /\ ctl'.handed = ctl.handed
             /\ UNCHANGED <<m_spController, m_output, m_history, m_traceBuffer>>
      ]_vars

\* C3: after a build that returned Ok, every build returns AlreadyBuilt and
\* leaves the controller, the environment and both subscriptions as they
\* are, and every processEvent returns Ok and hands its event to that
\* controller.
C3_SecondBuildRejected ==
    [][/\ (obs.buildOk /\ Returns("build"))
             => /\ ret'.val = "AlreadyBuilt"
                /\ UNCHANGED <<m_spController, m_environment, outSub, traceSub>>
       /\ (obs.buildOk /\ Returns("processEvent"))
             => /\ ret'.val = "Ok"
                /\ ctl'.handed = ctl.handed + 1
                /\ UNCHANGED <<m_spController, m_environment, outSub, traceSub>>
      ]_vars

\* C3's case: a build has returned Ok and a later build was just rejected,
\* the first build's controller and subscriptions in place.
C3_Witness ==
    /\ obs.buildOk
    /\ ret.op = "build" /\ ret.val = "AlreadyBuilt"
    /\ m_spController = 1 /\ outSub = 1 /\ traceSub = 1

\* C4: when build has returned BuildFailure the instance is UNBUILT: a
\* processEvent is rejected, a build is not rejected, and neither subscriber
\* is attached.
C4_FailedBuildLeavesUnbuilt ==
    (ret.op = "build" /\ ret.val = "BuildFailure")
        => /\ LifecycleState = "UNBUILT"
           /\ ProcessEventRejects
           /\ ~BuildRejects
           /\ outSub = NULL
           /\ traceSub = NULL

\* C5: the instance is UNBUILT or BUILT, and no step of build, processEvent,
\* getData, the output subscriber or the trace subscriber takes a BUILT
\* instance back to UNBUILT or gives it another controller.
C5_BuiltIsPermanent ==
    [][/\ LifecycleState' \in {"UNBUILT", "BUILT"}
       /\ LifecycleState = "BUILT"
             => /\ LifecycleState' = "BUILT"
                /\ m_spController' = m_spController
      ]_vars

\* C5's case: a BUILT instance on which an event was handed in, a trace
\* line and an output were delivered and getData has returned.
C5_Witness ==
    /\ LifecycleState = "BUILT"
    /\ ctl.handed > 0 /\ ctl.traces > 0 /\ ctl.outputs > 0
    /\ ret.op = "getData"

\* C6: m_history is empty at the moment getData returns, in each of the
\* three modes and under every interleaving with the trace subscriber.
C6_HistoryEmptyAtReturn ==
    [][(caller.pc = "return" /\ caller'.pc = "idle") => m_history' = <<>>]_vars

\* C7: between two getData calls m_history is the sequence of the condition
\* records of the delivered lines of the condition shape, in delivery order,
\* duplicates included.
C7_HistoryIsConditionLog ==
    caller.pc = "idle" => m_history = obs.condLog

C9_MalformedLinesIgnored ==
    obs.onlyOther
        => /\ m_history = <<>>
           /\ \A asset \in DOMAIN m_traceBuffer : m_traceBuffer[asset] = <<>>
           /\ ret.op = "getData" => ret.trace = PrettyStr(EmptyJson)

\* C10: a detailed getData that no delivery interleaves with returns, for
\* every asset that had lines buffered when it was called, the distinct
\* lines concatenated in lexicographic order as the asset's entry.
C10_DetailedDedup ==
    (caller.pc = "return" /\ caller.mode = DETAILS /\ ~obs.raced)
        => \A asset \in DOMAIN obs.snap :
              obs.snap[asset] # <<>>
                 => /\ HasMember(caller.trace, Path(asset))
                    /\ Member(caller.trace, Path(asset))
                          = ConcatSorted(UniqueTraces(obs.snap[asset]))

\* C11: when getData is called twice in a row in one of the two modes that
\* report traces and no trace line is delivered between the first call's
\* return and the second call, the second call returns the output string the
\* first returned and the trace "{}".  Read in the claim's favour: no
\* terminal event is delivered between the first call's return and the
\* second's either.
C11_SecondRenderEmpty ==
    [][(/\ caller.pc = "return" /\ caller'.pc = "idle"
        /\ obs.prev # <<>> /\ ctl.outputs = obs.prev[2])
          => /\ ret'.output = obs.prev[1]
             /\ ret'.trace = PrettyStr(EmptyJson)
      ]_vars

\* C12: while the instance is UNBUILT the output latch is the empty string
\* and m_history and m_traceBuffer are empty; a getData on an UNBUILT
\* instance returns ("", "{}") in each mode and leaves the instance UNBUILT.
C12_UnbuiltIsEmpty ==
    [][/\ LifecycleState' = "UNBUILT"
             => /\ m_output' = EmptyString
                /\ m_history' = <<>>
                /\ m_traceBuffer' = <<>>
       /\ (LifecycleState = "UNBUILT" /\ GetDataStep)
             => LifecycleState' = "UNBUILT"
       /\ (LifecycleState = "UNBUILT" /\ GetDataReturns)
             => /\ ret'.output = EmptyString
                /\ ret'.trace = EmptyObjectText
      ]_vars

\* C12's case: a detailed getData has returned on an instance that is
\* UNBUILT after a build that failed.
C12_Witness ==
    /\ LifecycleState = "UNBUILT"
    /\ m_environment # NULL
    /\ ret.op = "getData" /\ ret.mode = DETAILS
    /\ ret.output = EmptyString /\ ret.trace = EmptyObjectText

\* C13: getData makes none of its accesses to m_history and m_traceBuffer
\* (an iteration, the read of a bucket, the clear of a bucket, the clear of
\* m_history) while the trace subscriber is inside its critical section.
C13_RenderExcludesSink ==
    [][(GetDataStep /\ caller.pc \in {"loop", "clearBucket"})
          => (sink.pc = "idle" /\ m_tracerMutex # "trace")
      ]_vars

\* C14: the output string getData returns is the empty string or the whole
\* string the output subscriber latched for one terminal event delivered
\* before the read, under every interleaving with the output subscriber.
C14_OutputNeverTorn ==
    [][GetDataReturns
          => \/ ret'.output = EmptyString
             \/ \E n \in 1..ctl.outputs : ret'.output = OutputText(n)
      ]_vars

\* C15: every delivered line for which the trace subscriber appends a record
\* (asset, payload) to m_history is, when the subscriber leaves, held by the
\* bucket m_traceBuffer[asset] of the same asset.
C15_ConditionLineBuffered ==
    [][(sink.pc = "verbose" /\ sink'.pc = "idle" /\ CondSearch(sink.line) # 0)
          => \E i \in 1..Len(Bucket(m_traceBuffer', CondRecord(sink.line)[1])) :
                Bucket(m_traceBuffer', CondRecord(sink.line)[1])[i] = sink.line
      ]_vars

\* C16: when the range-for of a detailed getData that no delivery
\* interleaves with is over, the trace holds, for every asset of the records
\* iterated over that had a line buffered when getData was called, the
\* asset's distinct buffered lines concatenated, also when the asset has
\* more than one record.
C16_DetailedKeepsEntry ==
    (/\ caller.pc = "loop" /\ caller.it > caller.end
     /\ caller.mode = DETAILS /\ ~obs.raced)
        => \A k \in 1..Len(m_history) :
              Bucket(obs.snap, m_history[k][1]) # <<>>
                 => /\ HasMember(caller.trace, Path(m_history[k][1]))
                    /\ Member(caller.trace, Path(m_history[k][1]))
                          = ConcatSorted(UniqueTraces(obs.snap[m_history[k][1]]))

\* C17: in a getData(OUTPUT_AND_TRACES) the trace holds, for every asset of
\* the records iterated over so far, the payload of the asset's last such
\* record at the path "/" + asset, and holds no other member; so it does
\* when the range-for is over and at the return.
C17_CompactLastWins ==
    (caller.pc = "loop" /\ caller.mode = "OUTPUT_AND_TRACES")
        => LET done == 1..(caller.it - 1)
           IN  /\ \A k \in done :
                     /\ HasMember(caller.trace, Path(m_history[k][1]))
                     /\ \/ \E j \in done :
                              j > k /\ m_history[j][1] = m_history[k][1]
                        \/ Member(caller.trace, Path(m_history[k][1]))
                              = m_history[k][2]
               /\ \A i \in 1..Len(caller.trace) :
                     \E k \in done : caller.trace[i][1] = Path(m_history[k][1])

\* C17's case: the range-for of a getData(OUTPUT_AND_TRACES) is over two
\* records of one asset with different payloads, and the trace holds the
\* second.
C17_Witness ==
    /\ caller.pc = "loop" /\ caller.mode = "OUTPUT_AND_TRACES"
    /\ caller.it = 3 /\ caller.end = 2 /\ Len(m_history) = 2
    /\ m_history[1][1] = m_history[2][1]
    /\ m_history[1][2] # m_history[2][2]
    /\ Member(caller.trace, Path(m_history[2][1])) = m_history[2][2]

\* C18: no step of getData changes the output latch or the lifecycle state;
\* a getData(OUTPUT_ONLY) or getData(OUTPUT_AND_TRACES) changes no bucket of
\* m_traceBuffer and getData(OUTPUT_ONLY) returns the trace "{}"; a detailed
\* getData changes a bucket only by emptying it, only for the asset of a
\* record it iterates over, and leaves no such asset's bucket unemptied.
C18_RenderFrame ==
    [][GetDataStep
          => /\ m_output' = m_output
             /\ LifecycleState' = LifecycleState
             /\ caller.mode # DETAILS => m_traceBuffer' = m_traceBuffer
             /\ (GetDataReturns /\ caller.mode = "OUTPUT_ONLY")
                   => ret'.trace = EmptyObjectText
             /\ caller.mode = DETAILS
                   => \A asset \in DOMAIN m_traceBuffer \cup DOMAIN m_traceBuffer' :
                         \/ Bucket(m_traceBuffer', asset) = Bucket(m_traceBuffer, asset)
                         \/ /\ Bucket(m_traceBuffer', asset) = <<>>
                            /\ caller.it <= caller.end
                            /\ asset = m_history[caller.it][1]
             /\ (caller.mode = DETAILS /\ caller.pc = "loop"
                                       /\ caller.it <= caller.end)
                   => \/ Bucket(m_traceBuffer, m_history[caller.it][1]) = <<>>
                      \/ caller'.pc = "clearBucket"
             /\ caller.pc = "clearBucket"
                   => Bucket(m_traceBuffer', m_history[caller.it][1]) = <<>>
      ]_vars

\* C18's case: a detailed getData is at its return, it has emptied the
\* bucket of an asset of m_history and another asset's bucket holds its line.
C18_Witness ==
    /\ caller.pc = "return" /\ caller.mode = DETAILS
    /\ \E x, y \in DOMAIN m_traceBuffer :
          /\ x \in obs.emptied /\ m_traceBuffer[x] = <<>>
          /\ y \notin obs.emptied /\ m_traceBuffer[y] # <<>>

\* C19, as the claim words it: a getData that returns while no callback runs
\* returns as output the pretty-printed string of the terminal event
\* delivered last, the empty string if none was; no step of the trace
\* subscriber and no processEvent changes the latch.
C19_LatchIsPrettyString ==
    [][/\ (GetDataReturns /\ outp.pc = "idle" /\ sink.pc = "idle")
             => ret'.output = IF ctl.outputs = 0 THEN EmptyString
                              ELSE <<EventText(ctl.outputs)>>
       /\ (sink' # sink \/ Returns("processEvent")) => m_output' = m_output
      ]_vars

\* C19, amended: the output returned is the pretty-printed string of the
\* terminal event delivered last followed by a newline, the empty string if
\* none was delivered; no step of the trace subscriber and no processEvent
\* changes the latch.
C19_LatchLastWriterWins ==
    [][/\ (GetDataReturns /\ outp.pc = "idle" /\ sink.pc = "idle")
             => ret'.output = IF ctl.outputs = 0 THEN EmptyString
                              ELSE <<EventText(ctl.outputs), NL>>
       /\ (sink' # sink \/ Returns("processEvent")) => m_output' = m_output
      ]_vars

\* C19's case: two terminal events were delivered, no callback runs and
\* getData has returned the second one's text.
C19_Witness ==
    /\ ctl.outputs = 2 /\ outp.pc = "idle" /\ sink.pc = "idle"
    /\ ret.op = "getData"
    /\ ret.output = m_output
    /\ ret.output # OutputText(1)
    /\ ret.output # EmptyString

\* getData works on m_history and m_traceBuffer holding m_tracerMutex, which
\* it took holding m_outputMutex, and reads m_output holding m_outputMutex.
RenderLockOrder ==
    /\ caller.pc \in {"loop", "clearBucket"}
          => (m_outputMutex = "getData" /\ m_tracerMutex = "getData")
    /\ caller.pc = "return" => m_outputMutex = "getData"

\* No thread inside getData or inside a subscriber is blocked: each can
\* take its next step, so none waits for a mutex another one holds.
NoThreadBlocked ==
    /\ caller.pc # "idle"
          => ENABLED (GetDataIterate \/ GetDataClearBucket
                        \/ GetDataClearHistory \/ GetDataReturn)
    /\ sink.pc # "idle" => ENABLED TraceVerbose
    /\ outp.pc # "idle" => ENABLED OutputFinish

\* Every getData call that starts returns.
RenderReturns == (caller.pc # "idle") ~> (caller.pc = "idle")

\* C20: getData takes m_outputMutex before m_tracerMutex and works under
\* them, no thread waits for a mutex while it holds the other, and under
\* fair scheduling every getData call that starts returns.
C20_RenderLocksAndReturns ==
    /\ []RenderLockOrder
    /\ []NoThreadBlocked
    /\ RenderReturns

\* C21: a delivered line "[<asset>] [condition]:" with nothing after the
\* colon appends the record (asset, "") to m_history, and a delivered line
\* "[<asset>] " with nothing after the space is appended to the bucket
\* m_traceBuffer[asset].
C21_EmptyPayloadRecorded ==
    [][/\ (/\ sink.pc = "idle" /\ sink'.pc = "verbose"
           /\ HasAssetTag(sink'.line)
           /\ ShapeRest(sink'.line) = ConditionTag)
             => m_history'
                   = Append(m_history, <<ShapeAsset(sink'.line), EmptyString>>)
       /\ (/\ sink.pc = "verbose" /\ sink'.pc = "idle"
           /\ HasAssetTag(sink.line)
           /\ ShapeRest(sink.line) = <<>>)
             => \E i \in 1..Len(Bucket(m_traceBuffer', ShapeAsset(sink.line))) :
                   Bucket(m_traceBuffer', ShapeAsset(sink.line))[i] = sink.line
      ]_vars

=============================================================================
